---- MODULE Spec2Model ----
(***************************************************************************)
(* rss-miner: feed discovery (find_rss_feeds, validate_rss_feed,           *)
(* resolve_url), the parallel orchestrator (find_rss_feeds_parallel), the  *)
(* library serializer (create_opml_file_filtered) and the command-line     *)
(* program (main.rs).                                                      *)
(*                                                                         *)
(* Strings that hold URLs are modelled by the three parts the url crate    *)
(* reads from them: [scheme, host, path].  A string with an empty scheme   *)
(* is a relative reference; every relative reference of the model is       *)
(* path-absolute ("/feed.xml").  Option<T> is a sequence of length <= 1.   *)
(***************************************************************************)
EXTENDS Integers, Sequences, FiniteSets, TLC

VARIABLES
    call,       \* find_rss_feeds: the activation record of one call
    last,       \* the last exchange that call made (fetch, scan, validate)
    feeds_in,   \* create_opml_file_filtered: the feeds argument
    filter,     \* create_opml_file_filtered: the feed_type_filter argument
    file,       \* the file at output_path: None, or Some(document)
    ret,        \* the serializer's / main's return: "none", "Ok", "Err"
    writes,     \* how many times fs::write was called on output_path
    report,     \* main: the lines it prints after the collect
    urls,       \* find_rss_feeds_parallel / main: the input URLs
    verbose,    \* find_rss_feeds_parallel: the verbose argument
    net,        \* per input index: what find_rss_feeds returned for it
    slots,      \* per input index: what the filter_map closure returned
    stdout,     \* per input index: the lines the closure printed
    result,     \* the collected Vec<RssFeed>
    bpc,        \* the batch's position: "tasks", "collected", "done"
    overtaken   \* a task has returned while one of a lower index had not

vars == <<call, last, feeds_in, filter, file, ret, writes, report,
          urls, verbose, net, slots, stdout, result, bpc, overtaken>>

pageVars == <<call, last>>
serVars == <<feeds_in, filter>>
batchVars == <<urls, verbose, net, slots, stdout, result, bpc, overtaken>>

(***************************************************************************)
(* Bounds                                                                  *)
(***************************************************************************)
\* the most <link> elements the selector yields on one page
MaxLinks == 2
\* the most feeds passed to the serializer
MaxFeeds == 3
\* the most input URLs of one batch
MaxUrls == 2

(***************************************************************************)
(* Option                                                                  *)
(***************************************************************************)
None == <<>>
Some(x) == <<x>>

(***************************************************************************)
(* Strings holding URLs                                                    *)
(***************************************************************************)
Str(scheme, host, path) == [scheme |-> scheme, host |-> host, path |-> path]

NoStr == Str("", "", "")

\* "https://a.example", "https://b.example" and "not-a-url"
PageA == Str("https", "a.example", "")
PageB == Str("https", "b.example", "")
NotAUrl == Str("", "", "not-a-url")
PageUrls == {PageA, PageB, NotAUrl}

\* hrefs of <link> elements: "https://feeds.example/rss", "/feed.xml" and
\* "https://" (a scheme with an empty host, which Url::join rejects)
HrefShared == Str("https", "feeds.example", "/rss")
HrefRelative == Str("", "", "/feed.xml")
HrefBad == Str("https", "", "")

FeedType == {"Rss", "Atom"}

\* RssFeed { title, url, html_url, feed_type }
RssFeed(title, url, html_url, feed_type) ==
    [title |-> title, url |-> url, html_url |-> html_url, feed_type |-> feed_type]

(***************************************************************************)
(* url crate: Url::parse, Url::join, Url::to_string as resolve_url and     *)
(* extract_title_from_url use them                                         *)
(***************************************************************************)
\* Url::parse(s): fails on a relative reference and on an empty host;
\* the parsed URL of "https://a.example" prints as "https://a.example/"
UrlParse(s) ==
    IF s.scheme = "" \/ s.host = ""
    THEN [ok |-> FALSE, v |-> NoStr]
    ELSE [ok |-> TRUE, v |-> [s EXCEPT !.path = IF @ = "" THEN "/" ELSE @]]

\* base_url.join(href): an href with a scheme is parsed on its own, a
\* path-absolute href replaces the base's path
UrlJoin(base_url, href) ==
    IF href.scheme # ""
    THEN UrlParse(href)
    ELSE [ok |-> TRUE, v |-> [base_url EXCEPT !.path = href.path]]

\* fn resolve_url(base: &str, href: &str) -> Result<String>
resolve_url(base, href) ==
    LET base_url == UrlParse(base) IN
    IF ~base_url.ok
    THEN [ok |-> FALSE, v |-> NoStr]
    ELSE UrlJoin(base_url.v, href)

\* fn extract_title_from_url(url: &str) -> String
extract_title_from_url(url) ==
    LET u == UrlParse(url) IN
    IF u.ok THEN u.v.host ELSE "Unknown"

(***************************************************************************)
(* The network: what one GET can bring back                                *)
(***************************************************************************)
\* send: client.get(..).send() is Ok; status: the response status;
\* text: response.text() is Ok; rss / atom: rss::Channel::read_from /
\* atom_syndication::Feed::read_from accept the body
Statuses == {200, 404}

SendFailed == [send |-> FALSE, status |-> 0, text |-> FALSE, rss |-> FALSE, atom |-> FALSE]

Responses ==
    {SendFailed} \cup
    [send : {TRUE}, status : Statuses, text : BOOLEAN, rss : BOOLEAN, atom : BOOLEAN]

\* response.status().is_success()
is_success(status) == status >= 200 /\ status <= 299

\* the status check left out
validate_rss_feed_no_status(resp) ==
    IF resp.send
    THEN IF resp.text
         THEN IF resp.rss THEN Some("Rss")
              ELSE IF resp.atom THEN Some("Atom")
              ELSE None
         ELSE None
    ELSE None

\* the Atom parser tried before the RSS parser
validate_rss_feed_atom_first(resp) ==
    IF resp.send
    THEN IF ~is_success(resp.status)
         THEN None
         ELSE IF resp.text
              THEN IF resp.atom THEN Some("Atom")
                   ELSE IF resp.rss THEN Some("Rss")
                   ELSE None
              ELSE None
    ELSE None

\* fn validate_rss_feed(feed_url: &str, client: &Client) -> Option<FeedType>,
\* of the response the network gives for feed_url
validate_rss_feed(resp) ==
    IF resp.send
    THEN IF ~is_success(resp.status)
         THEN None
         ELSE IF resp.text
              THEN IF resp.rss THEN Some("Rss")
                   ELSE IF resp.atom THEN Some("Atom")
                   ELSE None
              ELSE None
    ELSE None

(***************************************************************************)
(* find_rss_feeds, one step at a time                                      *)
(***************************************************************************)
\* the <link> elements the selector can yield: href and title attributes
Element(href, title) == [href |-> href, title |-> title]

ElemShared == Element(Some(HrefShared), Some("T"))
ElemRelative == Element(Some(HrefRelative), None)
ElemNoHref == Element(None, Some("T"))
ElemBadHref == Element(Some(HrefBad), None)
NoElem == Element(None, None)

Elements == {ElemShared, ElemRelative, ElemNoHref, ElemBadHref}

\* let common_paths = vec![...]
common_paths ==
    << Str("", "", "/feed"), Str("", "", "/rss"), Str("", "", "/feed.xml"),
       Str("", "", "/rss.xml"), Str("", "", "/atom.xml"), Str("", "", "/index.xml") >>

\* the activation record: pc is "fetch", "links", "fallback", "ok" (returned
\* Ok(feeds)) or "err" (returned Err); k counts the elements scanned, then
\* the paths probed; requests logs the calls of validate_rss_feed
Start(url) ==
    [pc |-> "fetch", url |-> url, feeds |-> <<>>, k |-> 0, requests |-> <<>>]

\* one call of validate_rss_feed: where it was made, the URL, what it returned
Request(phase, url, verdict) == [phase |-> phase, url |-> url, verdict |-> verdict]

\* what a step exchanged with the outside: kind is "none", "fetch", "scan"
\* (an element that led to no request) or "validate"
Exchange(kind, url, resp, verdict, elem) ==
    [kind |-> kind, url |-> url, resp |-> resp, verdict |-> verdict, elem |-> elem]

NoExchange == Exchange("none", NoStr, SendFailed, None, NoElem)

Step(next, exch) == [next |-> next, exch |-> exch]

\* the `?` on response.text() left out: an unreadable body is scanned as a page
FetchStepsTextUnchecked(s) ==
    { Step(IF resp.send
           THEN [s EXCEPT !.pc = "links"]
           ELSE [s EXCEPT !.pc = "err"],
           Exchange("fetch", s.url, resp, None, NoElem))
      : resp \in {r \in Responses :
                    /\ ~r.rss /\ ~r.atom
                    /\ (r.send => UrlParse(s.url).ok)} }

\* client.get(url).send()?; response.text()?; Html::parse_document
FetchSteps(s) ==
    { Step(IF resp.send /\ resp.text
           THEN [s EXCEPT !.pc = "links"]
           ELSE [s EXCEPT !.pc = "err"],
           Exchange("fetch", s.url, resp, None, NoElem))
      : resp \in {r \in Responses :
                    /\ ~r.rss /\ ~r.atom
                    /\ (r.send => UrlParse(s.url).ok)} }

\* element.value().attr("title").unwrap_or("Untitled Feed")
TitleOf(element) == IF element.title = None THEN "Untitled Feed" ELSE element.title[1]

\* the markup loop body pushing the candidate whatever validate_rss_feed said
LinkBodyUnvalidated(s, element) ==
    IF element.href = None
    THEN {Step([s EXCEPT !.k = @ + 1],
               Exchange("scan", NoStr, SendFailed, None, element))}
    ELSE LET feed_url == resolve_url(s.url, element.href[1]) IN
         IF ~feed_url.ok
         THEN {Step([s EXCEPT !.pc = "err"],
                    Exchange("scan", NoStr, SendFailed, None, element))}
         ELSE { LET feed_type == validate_rss_feed(resp) IN
                Step([s EXCEPT
                        !.k = @ + 1,
                        !.requests = Append(@, Request("markup", feed_url.v,
                                                       feed_type)),
                        !.feeds = Append(@, RssFeed(TitleOf(element), feed_url.v, s.url,
                                                    IF feed_type = None THEN "Rss"
                                                    ELSE feed_type[1]))],
                     Exchange("validate", feed_url.v, resp, feed_type, element))
                : resp \in Responses }

\* the body of `for element in document.select(&link_selector)`
LinkBody(s, element) ==
    IF element.href = None
    THEN {Step([s EXCEPT !.k = @ + 1],
               Exchange("scan", NoStr, SendFailed, None, element))}
    ELSE LET feed_url == resolve_url(s.url, element.href[1]) IN
         IF ~feed_url.ok
         THEN {Step([s EXCEPT !.pc = "err"],
                    Exchange("scan", NoStr, SendFailed, None, element))}
         ELSE { LET feed_type == validate_rss_feed(resp) IN
                Step([s EXCEPT
                        !.k = @ + 1,
                        !.requests = Append(@, Request("markup", feed_url.v,
                                                       feed_type)),
                        !.feeds = IF feed_type = None THEN @
                                  ELSE Append(@, RssFeed(TitleOf(element), feed_url.v,
                                                         s.url, feed_type[1]))],
                     Exchange("validate", feed_url.v, resp, feed_type, element))
                : resp \in Responses }

\* the end of the markup loop with the `if feeds.is_empty()` left out
LinksDoneAlwaysFallback(s) == [s EXCEPT !.pc = "fallback", !.k = 0]

\* the end of the markup loop: `if feeds.is_empty()` enters the fallback,
\* otherwise Ok(feeds)
LinksDone(s) ==
    IF s.feeds = <<>>
    THEN [s EXCEPT !.pc = "fallback", !.k = 0]
    ELSE [s EXCEPT !.pc = "ok"]

\* one turn of the markup loop over the elements of elems: the selector
\* yields another element (at most MaxLinks of them) or is exhausted
LinkSteps(s, elems) ==
    {Step(LinksDone(s), NoExchange)} \cup
    (IF s.k < MaxLinks
     THEN UNION {LinkBody(s, element) : element \in elems}
     ELSE {})

\* the position after the path at s.k + 1 did not give a feed
NextPath(s) ==
    IF s.k + 1 = Len(common_paths)
    THEN [s EXCEPT !.k = @ + 1, !.pc = "ok"]
    ELSE [s EXCEPT !.k = @ + 1]

\* the body of `for path in common_paths`, without the break
FallbackStepsNoBreak(s) ==
    LET path == common_paths[s.k + 1]
        feed_url == resolve_url(s.url, path) IN
    IF ~feed_url.ok
    THEN {Step(NextPath(s), NoExchange)}
    ELSE { LET feed_type == validate_rss_feed(resp)
               t == [NextPath(s) EXCEPT
                       !.requests = Append(@, Request("fallback", feed_url.v, feed_type))] IN
           Step(IF feed_type = None THEN t
                ELSE [t EXCEPT
                        !.feeds = Append(@, RssFeed(extract_title_from_url(s.url),
                                                    feed_url.v, s.url, feed_type[1]))],
                Exchange("validate", feed_url.v, resp, feed_type, NoElem))
           : resp \in Responses }

\* the body of `for path in common_paths`: one path probed
FallbackSteps(s) ==
    LET path == common_paths[s.k + 1]
        feed_url == resolve_url(s.url, path) IN
    IF ~feed_url.ok
    THEN {Step(NextPath(s), NoExchange)}
    ELSE { LET feed_type == validate_rss_feed(resp)
               t == [NextPath(s) EXCEPT
                       !.requests = Append(@, Request("fallback", feed_url.v, feed_type))] IN
           Step(IF feed_type = None THEN t
                ELSE [t EXCEPT
                        !.pc = "ok",
                        !.feeds = Append(@, RssFeed(extract_title_from_url(s.url),
                                                    feed_url.v, s.url, feed_type[1]))],
                Exchange("validate", feed_url.v, resp, feed_type, NoElem))
           : resp \in Responses }

\* what the call returns: Ok(feeds), or Err with nothing
Returned(s) ==
    IF s.pc = "ok"
    THEN [ok |-> TRUE, feeds |-> s.feeds]
    ELSE [ok |-> FALSE, feeds |-> <<>>]

(***************************************************************************)
(* Actions of one call of find_rss_feeds                                   *)
(***************************************************************************)
Idle == [pc |-> "idle", url |-> NoStr, feeds |-> <<>>, k |-> 0, requests |-> <<>>]

serIdle ==
    /\ feeds_in = <<>>
    /\ filter = None
    /\ file = None
    /\ ret = "none"
    /\ writes = 0
    /\ report = <<>>

batchIdle ==
    /\ urls = <<>>
    /\ verbose = FALSE
    /\ net = <<>>
    /\ slots = <<>>
    /\ stdout = <<>>
    /\ result = <<>>
    /\ bpc = "idle"
    /\ overtaken = FALSE

PageInit ==
    /\ call \in {Start(url) : url \in PageUrls}
    /\ last = NoExchange
    /\ serIdle
    /\ batchIdle

Fetch ==
    /\ call.pc = "fetch"
    /\ \E st \in FetchSteps(call) : call' = st.next /\ last' = st.exch
    /\ UNCHANGED <<serVars, file, ret, writes, report, batchVars>>

ScanLink ==
    /\ call.pc = "links"
    /\ \E st \in LinkSteps(call, Elements) : call' = st.next /\ last' = st.exch
    /\ UNCHANGED <<serVars, file, ret, writes, report, batchVars>>

Probe ==
    /\ call.pc = "fallback"
    /\ \E st \in FallbackSteps(call) : call' = st.next /\ last' = st.exch
    /\ UNCHANGED <<serVars, file, ret, writes, report, batchVars>>

PageNext == Fetch \/ ScanLink \/ Probe

SpecPage == PageInit /\ [][PageNext]_vars

(***************************************************************************)
(* Claims about one call of find_rss_feeds (SpecPage)                      *)
(***************************************************************************)
\* the page fetch of the last step failed: send() or text() returned Err
FetchFailed == last.kind = "fetch" /\ ~(last.resp.send /\ last.resp.text)

\* C6, as claimed: when the page fetch or the reading of the page body
\* fails, find_rss_feeds returns Ok with an empty sequence of feeds, not an
\* error.
C6_FailureGivesEmptyOk ==
    FetchFailed => Returned(call) = [ok |-> TRUE, feeds |-> <<>>]

\* C6, amended: when the page fetch or the reading of the page body fails,
\* find_rss_feeds returns Err, having confirmed no feed and made no
\* validation request.
C6_FailureGivesErr ==
    FetchFailed =>
        /\ call.pc = "err"
        /\ ~Returned(call).ok
        /\ call.feeds = <<>>
        /\ call.requests = <<>>

\* C6 witness: the page was sent but its body could not be read, and the
\* call returned Err.
C6_Witness ==
    /\ last.kind = "fetch"
    /\ last.resp.send
    /\ ~last.resp.text
    /\ call.pc = "err"

\* C7: a candidate link whose href is absent or fails to resolve is skipped
\* without aborting the page: after such an element the call is still in
\* the markup loop, so the remaining candidates are scanned and the feeds
\* confirmed so far are still returned.
C7_BadCandidateSkipped ==
    last.kind = "scan" => call.pc = "links"

\* the URLs the fallback asked validate_rss_feed about, in order
FallbackProbes(s) ==
    LET p == SelectSeq(s.requests, LAMBDA r : r.phase = "fallback") IN
    [j \in 1..Len(p) |-> p[j].url]

\* C8: the fallback probes /feed, /rss, /feed.xml, /rss.xml, /atom.xml,
\* /index.xml in that order, emits exactly one Feed for the first path that
\* validates and asks about no later path: the probes are a prefix of the
\* path list, a fallback feed is the only feed, it is the feed of the last
\* probe, and the call has returned once it is there.
C8_FallbackStopsAtFirst ==
    LET probes == FallbackProbes(call) IN
    /\ Len(probes) <= Len(common_paths)
    /\ \A j \in 1..Len(probes) :
          probes[j] = resolve_url(call.url, common_paths[j]).v
    /\ probes # <<>> => Len(call.feeds) <= 1
    /\ (probes # <<>> /\ call.feeds # <<>>) =>
          /\ call.pc = "ok"
          /\ call.feeds[1].url = probes[Len(probes)]
    /\ (probes # <<>> /\ last.kind = "validate" /\ last.verdict # None) =>
          call.feeds = << RssFeed(extract_title_from_url(call.url), last.url,
                                  call.url, last.verdict[1]) >>

\* C8 witness: /feed, /rss and /feed.xml did not validate, /rss.xml did, and
\* the call returned that one feed.
C8_Witness ==
    /\ call.pc = "ok"
    /\ Len(FallbackProbes(call)) = 4
    /\ Len(call.feeds) = 1
    /\ call.feeds[1].url = Str("https", "a.example", "/rss.xml")

\* C9: validate_rss_feed never raises, it only classifies: after a
\* validation the call has not failed, the verdict is None, Rss or Atom, and
\* it is None for a failed send, a status outside 2xx, an unreadable body
\* and a body neither parser accepts.
C9_ValidateOnlyClassifies ==
    last.kind = "validate" =>
        /\ call.pc # "err"
        /\ last.verdict \in {None, Some("Rss"), Some("Atom")}
        /\ ( \/ ~last.resp.send
             \/ last.resp.status \notin 200..299
             \/ ~last.resp.text
             \/ (~last.resp.rss /\ ~last.resp.atom) ) => last.verdict = None

\* C9 witness: a 404 whose body an RSS parser would accept is classified
\* None.
C9_Witness ==
    /\ last.kind = "validate"
    /\ last.resp.send
    /\ last.resp.status = 404
    /\ last.resp.text
    /\ last.resp.rss
    /\ last.verdict = None

(***************************************************************************)
(* create_opml_file_filtered (lib.rs)                                      *)
(***************************************************************************)
\* the feeds a caller can pass: two feed URLs, two titles, two source pages
SerTitles == {"1", "1-dup"}
SerUrls == {Str("https", "example.com", "/feed1.xml"), Str("https", "example.com", "/feed2.xml")}
SerPages == {PageA, PageB}

SerFeeds ==
    { RssFeed(title, url, html_url, feed_type) :
        title \in SerTitles, url \in SerUrls, html_url \in SerPages, feed_type \in FeedType }

SeqsUpTo(S, n) == UNION { [1..m -> S] : m \in 0..n }

\* let title = match feed_type_filter { ... }
opml_title(feed_type_filter) ==
    IF feed_type_filter = Some("Atom") THEN "Atom Feeds" ELSE "RSS Feeds"

\* let feed_type_str = match feed.feed_type { ... }
feed_type_str(feed_type) == IF feed_type = "Rss" THEN "rss" ELSE "atom"

\* opml::Outline { text, type, xml_url, html_url }
Outline(feed) ==
    [text |-> feed.title, type |-> feed_type_str(feed.feed_type),
     xml_url |-> feed.url, html_url |-> feed.html_url]

\* the loop body with the seen_urls check left out
OutlineStepNoDedup(acc, feed, feed_type_filter) ==
    IF feed_type_filter # None /\ feed_type_filter[1] # feed.feed_type
    THEN acc
    ELSE [seen_urls |-> acc.seen_urls \cup {feed.url},
          outlines |-> Append(acc.outlines, Outline(feed))]

\* the loop body with a duplicate replacing the entry already pushed
OutlineStepLastWins(acc, feed, feed_type_filter) ==
    IF feed_type_filter # None /\ feed_type_filter[1] # feed.feed_type
    THEN acc
    ELSE IF feed.url \in acc.seen_urls
         THEN [acc EXCEPT !.outlines =
                  [m \in 1..Len(@) |-> IF @[m].xml_url = feed.url
                                       THEN Outline(feed) ELSE @[m]]]
         ELSE [seen_urls |-> acc.seen_urls \cup {feed.url},
               outlines |-> Append(acc.outlines, Outline(feed))]

\* the loop body with the filter match left out
OutlineStepNoFilter(acc, feed, feed_type_filter) ==
    IF feed.url \in acc.seen_urls
    THEN acc
    ELSE [seen_urls |-> acc.seen_urls \cup {feed.url},
          outlines |-> Append(acc.outlines, Outline(feed))]

\* the loop body with the seen_urls check and insert ahead of the filter match
OutlineStepDedupFirst(acc, feed, feed_type_filter) ==
    IF feed.url \in acc.seen_urls
    THEN acc
    ELSE IF feed_type_filter # None /\ feed_type_filter[1] # feed.feed_type
         THEN [acc EXCEPT !.seen_urls = @ \cup {feed.url}]
         ELSE [seen_urls |-> acc.seen_urls \cup {feed.url},
               outlines |-> Append(acc.outlines, Outline(feed))]

\* the body of `for feed in feeds`: acc is (seen_urls, outlines)
OutlineStep(acc, feed, feed_type_filter) ==
    IF feed_type_filter # None /\ feed_type_filter[1] # feed.feed_type
    THEN acc
    ELSE IF feed.url \in acc.seen_urls
         THEN acc
         ELSE [seen_urls |-> acc.seen_urls \cup {feed.url},
               outlines |-> Append(acc.outlines, Outline(feed))]

RECURSIVE OutlineLoop(_, _, _, _)
\* `for feed in feeds`, from index i on
OutlineLoop(feeds, feed_type_filter, i, acc) ==
    IF i > Len(feeds)
    THEN acc
    ELSE OutlineLoop(feeds, feed_type_filter, i + 1,
                     OutlineStep(acc, feeds[i], feed_type_filter))

\* the document with its title taken from the outlines written, not the filter
create_opml_file_titled_by_feeds(feeds, feed_type_filter) ==
    LET outlines == OutlineLoop(feeds, feed_type_filter, 1,
                                [seen_urls |-> {}, outlines |-> <<>>]).outlines IN
    [title |-> IF outlines # <<>> /\ \A m \in 1..Len(outlines) : outlines[m].type = "atom"
               THEN "Atom Feeds" ELSE "RSS Feeds",
     outlines |-> outlines]

\* the OPML document create_opml_file_filtered builds: head title and body
create_opml_file_filtered(feeds, feed_type_filter) ==
    [title |-> opml_title(feed_type_filter),
     outlines |-> OutlineLoop(feeds, feed_type_filter, 1,
                              [seen_urls |-> {}, outlines |-> <<>>]).outlines]

\* pub fn create_opml_file(feeds, output_path)
create_opml_file(feeds) == create_opml_file_filtered(feeds, None)

pageIdle ==
    /\ call = Idle
    /\ last = NoExchange

SerInit ==
    /\ feeds_in \in SeqsUpTo(SerFeeds, MaxFeeds)
    /\ filter \in {None, Some("Rss"), Some("Atom")}
    /\ file = None
    /\ ret = "none"
    /\ writes = 0
    /\ report = <<>>
    /\ pageIdle
    /\ batchIdle

\* one call of create_opml_file_filtered(feeds_in, output_path, filter):
\* fs::write succeeds and the file holds the document, or fails with the
\* file left as it was
CreateOpml ==
    /\ ret = "none"
    /\ \E written \in BOOLEAN :
          IF written
          THEN /\ file' = Some(create_opml_file_filtered(feeds_in, filter))
               /\ ret' = "Ok"
          ELSE /\ file' = file
               /\ ret' = "Err"
    /\ writes' = writes + 1
    /\ UNCHANGED <<pageVars, serVars, report, batchVars>>

SerNext == CreateOpml

SpecSer == SerInit /\ [][SerNext]_vars

(***************************************************************************)
(* Claims about create_opml_file_filtered (SpecSer)                        *)
(***************************************************************************)
NoDuplicateUrls(outlines) ==
    \A m, n \in 1..Len(outlines) :
        outlines[m].xml_url = outlines[n].xml_url => m = n

\* the input feed at index i passes the filter
Passes(i) == filter = None \/ filter[1] = feeds_in[i].feed_type

\* C1: for every feed list and every filter setting, the document written by
\* create_opml_file / create_opml_file_filtered holds no two outlines with
\* the same feed URL.
C1_NoDuplicateFeedUrl ==
    file # None => NoDuplicateUrls(file[1].outlines)

\* C1 witness: the input repeats a feed URL, also among the feeds that pass
\* the filter, and the document was written.
C1_Witness ==
    /\ file # None
    /\ \E i, j \in 1..Len(feeds_in) :
          /\ i < j
          /\ feeds_in[i].url = feeds_in[j].url
          /\ Passes(i) /\ Passes(j)
    /\ Len(file[1].outlines) >= 2

\* C2, as claimed: every outline carries the title, format label and source
\* page of the earliest input feed with its URL, and the outlines are in the
\* order of the first occurrences of their URLs in the input.
C2_EarliestInputWins ==
    file # None =>
        LET outlines == file[1].outlines
            First(u) == CHOOSE i \in 1..Len(feeds_in) :
                           /\ feeds_in[i].url = u
                           /\ \A j \in 1..(i - 1) : feeds_in[j].url # u IN
        /\ \A m \in 1..Len(outlines) :
              /\ \E i \in 1..Len(feeds_in) : feeds_in[i].url = outlines[m].xml_url
              /\ outlines[m] = Outline(feeds_in[First(outlines[m].xml_url)])
        /\ \A m, n \in 1..Len(outlines) :
              m < n => First(outlines[m].xml_url) < First(outlines[n].xml_url)

\* the earliest input feed with URL u among those that pass the filter
FirstPassing(u) ==
    CHOOSE i \in 1..Len(feeds_in) :
        /\ feeds_in[i].url = u
        /\ Passes(i)
        /\ \A j \in 1..(i - 1) : ~(feeds_in[j].url = u /\ Passes(j))

\* C2, amended: every outline carries the title, format label and source
\* page of the earliest input feed with its URL among the feeds that pass
\* the filter (all feeds when no filter is set), every URL of a passing feed
\* has an outline, and the outlines are in the order of those first
\* occurrences.
C2_EarliestPassingWins ==
    file # None =>
        LET outlines == file[1].outlines IN
        /\ \A m \in 1..Len(outlines) :
              /\ \E i \in 1..Len(feeds_in) :
                    feeds_in[i].url = outlines[m].xml_url /\ Passes(i)
              /\ outlines[m] = Outline(feeds_in[FirstPassing(outlines[m].xml_url)])
        /\ \A i \in 1..Len(feeds_in) :
              Passes(i) => \E m \in 1..Len(outlines) : outlines[m].xml_url = feeds_in[i].url
        /\ \A m, n \in 1..Len(outlines) :
              m < n => FirstPassing(outlines[m].xml_url) < FirstPassing(outlines[n].xml_url)

\* C2 witness: the spec's example shape, (A, "1"), (B, ..), (A, "1-dup"),
\* written without a filter: two outlines, the first titled "1".
C2_Witness ==
    /\ file # None
    /\ filter = None
    /\ Len(feeds_in) = 3
    /\ feeds_in[1].url = feeds_in[3].url
    /\ feeds_in[1].url # feeds_in[2].url
    /\ feeds_in[1].title = "1"
    /\ feeds_in[3].title = "1-dup"
    /\ Len(file[1].outlines) = 2
    /\ file[1].outlines[1].text = "1"

\* C3: with a filter, every outline has the filter's format; without one,
\* feeds of both formats are kept: every input URL has an outline, and the
\* first feed of each URL keeps its own format.
C3_FilterKeepsOnlyFormat ==
    file # None =>
        LET outlines == file[1].outlines IN
        /\ filter # None =>
              \A m \in 1..Len(outlines) : outlines[m].type = feed_type_str(filter[1])
        /\ filter = None =>
              \A i \in 1..Len(feeds_in) :
                  \E m \in 1..Len(outlines) :
                      /\ outlines[m].xml_url = feeds_in[i].url
                      /\ (\A j \in 1..(i - 1) : feeds_in[j].url # feeds_in[i].url)
                            => outlines[m].type = feed_type_str(feeds_in[i].feed_type)

\* C3 witness: an RSS filter over a list with an Atom feed and an RSS feed
\* of different URLs wrote one outline.
C3_Witness ==
    /\ file # None
    /\ filter = Some("Rss")
    /\ \E i, j \in 1..Len(feeds_in) :
          /\ feeds_in[i].feed_type = "Atom"
          /\ feeds_in[j].feed_type = "Rss"
          /\ feeds_in[i].url # feeds_in[j].url
    /\ Len(file[1].outlines) = 1

(***************************************************************************)
(* find_rss_feeds as a whole call, and find_rss_feeds_parallel             *)
(***************************************************************************)
\* the pages of a batch carry these <link> elements
BatchElements == {ElemShared, ElemNoHref, ElemBadHref}

\* the steps a call can take from s
NextSteps(s, elems) ==
    IF s.pc = "fetch" THEN {st.next : st \in FetchSteps(s)}
    ELSE IF s.pc = "links" THEN {st.next : st \in LinkSteps(s, elems)}
    ELSE IF s.pc = "fallback" THEN {st.next : st \in FallbackSteps(s)}
    ELSE {}

RECURSIVE Runs(_, _)
\* the records a call that is at s can end in
Runs(s, elems) ==
    IF s.pc \in {"ok", "err"}
    THEN {s}
    ELSE UNION {Runs(t, elems) : t \in NextSteps(s, elems)}

\* pub fn find_rss_feeds(url, client) -> Result<Vec<RssFeed>>: everything the
\* call can return for url, over the pages and responses the network can give
find_rss_feeds(url, elems) == {Returned(s) : s \in Runs(Start(url), elems)}

FoundBy == [url \in PageUrls |-> find_rss_feeds(url, BatchElements)]

\* println! / eprintln! lines
Line(stream, text, count) == [stream |-> stream, text |-> text, count |-> count]

\* the filter_map closure, returning None for a verbose run that found feeds
page_closure_verbose_drops(url, verbose_, found) ==
    LET processing == IF verbose_ THEN <<Line("out", "Processing", 0)>> ELSE <<>> IN
    IF found.ok
    THEN IF found.feeds # <<>>
         THEN [ret |-> IF verbose_ THEN None ELSE Some(found.feeds),
               out |-> processing \o
                       (IF verbose_ THEN <<Line("out", "Found", Len(found.feeds))>> ELSE <<>>)]
         ELSE [ret |-> None,
               out |-> processing \o
                       (IF verbose_ THEN <<Line("out", "No feeds found", 0)>> ELSE <<>>)]
    ELSE [ret |-> None,
          out |-> processing \o
                  (IF verbose_ THEN <<Line("err", "Error processing", 0)>> ELSE <<>>)]

\* the filter_map closure of find_rss_feeds_parallel, given what
\* find_rss_feeds(url, client) returned: its Option<Vec<RssFeed>> and the
\* lines it printed
page_closure(url, verbose_, found) ==
    LET processing == IF verbose_ THEN <<Line("out", "Processing", 0)>> ELSE <<>> IN
    IF found.ok
    THEN IF found.feeds # <<>>
         THEN [ret |-> Some(found.feeds),
               out |-> processing \o
                       (IF verbose_ THEN <<Line("out", "Found", Len(found.feeds))>> ELSE <<>>)]
         ELSE [ret |-> None,
               out |-> processing \o
                       (IF verbose_ THEN <<Line("out", "No feeds found", 0)>> ELSE <<>>)]
    ELSE [ret |-> None,
          out |-> processing \o
                  (IF verbose_ THEN <<Line("err", "Error processing", 0)>> ELSE <<>>)]

RECURSIVE FlattenAborting(_, _)
\* a collect that stops at the first page that gave None
FlattenAborting(rets, i) ==
    IF i > Len(rets) THEN <<>>
    ELSE IF rets[i] = None THEN <<>>
    ELSE rets[i][1] \o FlattenAborting(rets, i + 1)

RECURSIVE FlattenOverwriting(_, _)
\* a collect into a shared list that each page's feeds overwrite
FlattenOverwriting(rets, i) ==
    IF i > Len(rets) THEN <<>>
    ELSE LET rest == FlattenOverwriting(rets, i + 1) IN
         IF rest # <<>> THEN rest
         ELSE IF rets[i] = None THEN <<>> ELSE rets[i][1]

RECURSIVE Flatten(_, _)
\* .filter_map(..).flatten().collect(): the Some(feeds) of the pages from
\* index i on, concatenated in input order
Flatten(rets, i) ==
    IF i > Len(rets) THEN <<>>
    ELSE (IF rets[i] = None THEN <<>> ELSE rets[i][1]) \o Flatten(rets, i + 1)

Pending == [done |-> FALSE, ret |-> None]
Finished(r) == [done |-> TRUE, ret |-> r]

AllDone == \A i \in 1..Len(urls) : slots[i].done

Rets == [i \in 1..Len(urls) |-> slots[i].ret]

ParInit ==
    /\ urls \in SeqsUpTo(PageUrls, MaxUrls)
    /\ verbose \in BOOLEAN
    /\ net = [i \in 1..Len(urls) |-> None]
    /\ slots = [i \in 1..Len(urls) |-> Pending]
    /\ stdout = [i \in 1..Len(urls) |-> <<>>]
    /\ result = <<>>
    /\ bpc = "tasks"
    /\ overtaken = FALSE
    /\ pageIdle
    /\ serIdle

\* one page's task of urls.par_iter().filter_map(..): the whole closure
Task(i) ==
    /\ bpc = "tasks"
    /\ ~slots[i].done
    /\ \E found \in FoundBy[urls[i]] :
          LET c == page_closure(urls[i], verbose, found) IN
          /\ net' = [net EXCEPT ![i] = Some(found)]
          /\ slots' = [slots EXCEPT ![i] = Finished(c.ret)]
          /\ stdout' = [stdout EXCEPT ![i] = c.out]
    /\ overtaken' = (overtaken \/ \E j \in 1..(i - 1) : ~slots[j].done)
    /\ UNCHANGED <<pageVars, serVars, file, ret, writes, report, urls, verbose, result, bpc>>

\* .flatten().collect(), once every task has returned
Collect ==
    /\ bpc = "tasks"
    /\ AllDone
    /\ result' = Flatten(Rets, 1)
    /\ bpc' = "done"
    /\ UNCHANGED <<pageVars, serVars, file, ret, writes, report,
                   urls, verbose, net, slots, stdout, overtaken>>

ParNext == (\E i \in 1..Len(urls) : Task(i)) \/ Collect

SpecPar == ParInit /\ [][ParNext]_vars

(***************************************************************************)
(* Claims about find_rss_feeds_parallel (SpecPar)                          *)
(***************************************************************************)
RECURSIVE SucceededFeeds(_)
\* the feeds of the pages from index i on whose find_rss_feeds returned Ok
SucceededFeeds(i) ==
    IF i > Len(urls) THEN <<>>
    ELSE (IF net[i][1].ok THEN net[i][1].feeds ELSE <<>>) \o SucceededFeeds(i + 1)

\* C5: a page whose discovery fails or finds nothing contributes no feeds
\* and never aborts the batch: the task of a failed page returns None, and
\* the returned list is exactly the feeds of the pages whose discovery
\* succeeded.
C5_FailedPagesContributeNothing ==
    /\ \A i \in 1..Len(urls) :
          (slots[i].done /\ ~net[i][1].ok) => slots[i].ret = None
    /\ bpc = "done" => result = SucceededFeeds(1)

\* C5 witness: the first page failed, the second gave feeds, and the batch
\* returned the second page's feeds.
C5_Witness ==
    /\ bpc = "done"
    /\ Len(urls) = 2
    /\ ~net[1][1].ok
    /\ net[2][1].ok
    /\ net[2][1].feeds # <<>>
    /\ result = net[2][1].feeds

\* what the batch returns for the same URLs and the same find_rss_feeds
\* results under a given verbose flag
ResultUnder(verbose_) ==
    Flatten([i \in 1..Len(urls) |-> page_closure(urls[i], verbose_, net[i][1]).ret], 1)

\* C10: verbose is observational only: the list returned equals the list the
\* same URLs and the same network responses give with verbose = false, and
\* the one they give with verbose = true.
C10_VerboseDoesNotChangeResult ==
    bpc = "done" =>
        /\ result = ResultUnder(FALSE)
        /\ result = ResultUnder(TRUE)

\* C10 witness: a verbose run that printed and returned feeds.
C10_Witness ==
    /\ bpc = "done"
    /\ verbose
    /\ Len(urls) = 2
    /\ stdout[1] # <<>>
    /\ result # <<>>

RECURSIVE DiscoveredFor(_, _)
\* what find_rss_feeds returned for page u, over the input indices from i on
DiscoveredFor(u, i) ==
    IF i > Len(urls) THEN <<>>
    ELSE (IF urls[i] = u /\ net[i][1].ok THEN net[i][1].feeds ELSE <<>>)
         \o DiscoveredFor(u, i + 1)

RECURSIVE DiscoveredCount(_)
DiscoveredCount(i) ==
    IF i > Len(urls) THEN 0
    ELSE (IF net[i][1].ok THEN Len(net[i][1].feeds) ELSE 0) + DiscoveredCount(i + 1)

\* C11: in whatever order the page tasks return, the collected list loses
\* and duplicates nothing: its feeds of any one page are that page's
\* discovery result, the same feeds in the same order.
C11_NothingLostOrDuplicated ==
    bpc = "done" =>
        /\ \A i \in 1..Len(urls) :
              SelectSeq(result, LAMBDA f : f.html_url = urls[i]) = DiscoveredFor(urls[i], 1)
        /\ Len(result) = DiscoveredCount(1)

\* C11 witness: the second page's task returned before the first's, both
\* pages gave feeds, one of them two, and the list holds all three.
C11_Witness ==
    /\ bpc = "done"
    /\ overtaken
    /\ Len(urls) = 2
    /\ urls[1] # urls[2]
    /\ net[1][1].ok /\ net[2][1].ok
    /\ Len(net[1][1].feeds) = 2
    /\ Len(net[2][1].feeds) = 1
    /\ result = net[1][1].feeds \o net[2][1].feeds

(***************************************************************************)
(* The command-line program (main.rs)                                      *)
(***************************************************************************)
\* the filter_map closure of main: it always prints
main_closure(url, found) ==
    IF found.ok
    THEN IF found.feeds # <<>>
         THEN [ret |-> Some(found.feeds),
               out |-> <<Line("out", "Processing", 0),
                         Line("out", "Found", Len(found.feeds))>>]
         ELSE [ret |-> None,
               out |-> <<Line("out", "Processing", 0), Line("out", "No feeds found", 0)>>]
    ELSE [ret |-> None,
          out |-> <<Line("out", "Processing", 0), Line("err", "Error processing", 0)>>]

\* fn create_opml_file(feeds, output_path) of main.rs: one outline per feed
main_create_opml_file(feeds) ==
    [title |-> "RSS Feeds",
     outlines |-> [m \in 1..Len(feeds) |-> Outline(feeds[m])]]

\* a document an earlier run left at args.output
OldFile ==
    [title |-> "RSS Feeds",
     outlines |-> <<Outline(RssFeed("old", Str("https", "example.com", "/old.xml"),
                                    PageA, "Rss"))>>]

MainInit ==
    /\ urls \in SeqsUpTo(PageUrls, MaxUrls)
    /\ verbose = TRUE
    /\ net = [i \in 1..Len(urls) |-> None]
    /\ slots = [i \in 1..Len(urls) |-> Pending]
    /\ stdout = [i \in 1..Len(urls) |-> <<>>]
    /\ result = <<>>
    /\ bpc = "tasks"
    /\ overtaken = FALSE
    /\ file \in {None, Some(OldFile)}
    /\ ret = "none"
    /\ writes = 0
    /\ report = <<>>
    /\ feeds_in = <<>>
    /\ filter = None
    /\ pageIdle

\* one page's task of main's urls.par_iter().filter_map(..)
MainTask(i) ==
    /\ bpc = "tasks"
    /\ ~slots[i].done
    /\ \E found \in FoundBy[urls[i]] :
          LET c == main_closure(urls[i], found) IN
          /\ net' = [net EXCEPT ![i] = Some(found)]
          /\ slots' = [slots EXCEPT ![i] = Finished(c.ret)]
          /\ stdout' = [stdout EXCEPT ![i] = c.out]
    /\ overtaken' = (overtaken \/ \E j \in 1..(i - 1) : ~slots[j].done)
    /\ UNCHANGED <<pageVars, serVars, file, ret, writes, report, urls, verbose, result, bpc>>

\* main after the tasks, without the feeds.is_empty() return
MainFinishAlwaysWrites ==
    /\ bpc = "tasks"
    /\ AllDone
    /\ LET feeds == Flatten(Rets, 1)
           total == Line("out", "Total feeds found", Len(feeds)) IN
       /\ result' = feeds
       /\ writes' = writes + 1
       /\ \E written \in BOOLEAN :
             IF written
             THEN /\ file' = Some(main_create_opml_file(feeds))
                  /\ ret' = "Ok"
                  /\ report' = <<total, Line("out", "OPML file created", 0)>>
             ELSE /\ file' = file
                  /\ ret' = "Err"
                  /\ report' = <<total>>
    /\ bpc' = "done"
    /\ UNCHANGED <<pageVars, serVars, urls, verbose, net, slots, stdout, overtaken>>

\* main after the tasks: collect, print the total, then return Ok without a
\* file when no feed was found, else create_opml_file, whose fs::write
\* succeeds or fails
MainFinish ==
    /\ bpc = "tasks"
    /\ AllDone
    /\ LET feeds == Flatten(Rets, 1)
           total == Line("out", "Total feeds found", Len(feeds)) IN
       /\ result' = feeds
       /\ IF feeds = <<>>
          THEN /\ file' = file
               /\ ret' = "Ok"
               /\ writes' = writes
               /\ report' = <<total, Line("out", "OPML file will not be created", 0)>>
          ELSE /\ writes' = writes + 1
               /\ \E written \in BOOLEAN :
                     IF written
                     THEN /\ file' = Some(main_create_opml_file(feeds))
                          /\ ret' = "Ok"
                          /\ report' = <<total, Line("out", "OPML file created", 0)>>
                     ELSE /\ file' = file
                          /\ ret' = "Err"
                          /\ report' = <<total>>
    /\ bpc' = "done"
    /\ UNCHANGED <<pageVars, serVars, urls, verbose, net, slots, stdout, overtaken>>

MainNext == (\E i \in 1..Len(urls) : MainTask(i)) \/ MainFinish

SpecCli == MainInit /\ [][MainNext]_vars

(***************************************************************************)
(* Claims about the command-line program (SpecCli)                         *)
(***************************************************************************)
\* C4: the OPML document the command-line program writes holds no two
\* outlines with the same feed URL, also when several pages, or several
\* links of one page, lead to the same feed URL.
C4_CliNoDuplicateFeedUrl ==
    file # None => NoDuplicateUrls(file[1].outlines)

(***************************************************************************)
(* More claims about one call of find_rss_feeds (SpecPage)                 *)
(***************************************************************************)
\* the validate_rss_feed calls of the markup loop that returned a format
ConfirmedMarkup(s) ==
    SelectSeq(s.requests, LAMBDA r : r.phase = "markup" /\ r.verdict # None)

\* C14: the markup step and the fallback step are mutually exclusive: the
\* fallback runs, and probes a conventional path, only when no markup
\* candidate was confirmed; a call with a confirmed markup feed has made no
\* probe, and a feed that came from a probe is the only feed of the call.
C14_MarkupFallbackExclusive ==
    /\ call.pc = "fallback" => call.feeds = <<>>
    /\ FallbackProbes(call) # <<>> => ConfirmedMarkup(call) = <<>>
    /\ ConfirmedMarkup(call) # <<>> => call.pc \in {"links", "ok", "err"}
    /\ (\E j \in 1..Len(call.requests) :
           call.requests[j].phase = "fallback" /\ call.requests[j].verdict # None)
          => Len(call.feeds) = 1

\* C14 witness: one markup candidate was rejected, another confirmed, and
\* the call returned that feed without probing any conventional path.
C14_Witness ==
    /\ call.pc = "ok"
    /\ Len(call.requests) = 2
    /\ Len(ConfirmedMarkup(call)) = 1
    /\ Len(call.feeds) = 1
    /\ FallbackProbes(call) = <<>>

\* C15: the RSS parser is tried first and the Atom parser only if it
\* rejects the body, and the classification is a function of the response
\* alone: a readable 2xx body the RSS parser accepts is Rss (also when the
\* Atom parser accepts it too), one only the Atom parser accepts is Atom,
\* everything else is None, whatever the call did before.
C15_RssBeforeAtom ==
    last.kind = "validate" =>
        LET r == last.resp
            readable == r.send /\ r.status \in 200..299 /\ r.text IN
        last.verdict = IF readable /\ r.rss THEN <<"Rss">>
                       ELSE IF readable /\ r.atom THEN <<"Atom">>
                       ELSE <<>>

\* C15 witness: after an earlier validation of the same call gave Atom, a
\* 200 body that both parsers accept is classified Rss.
C15_Witness ==
    /\ last.kind = "validate"
    /\ Len(call.requests) = 2
    /\ call.requests[1].verdict = <<"Atom">>
    /\ last.resp.status = 200
    /\ last.resp.text
    /\ last.resp.rss
    /\ last.resp.atom
    /\ last.verdict = <<"Rss">>

\* the hrefs and paths find_rss_feeds can pass to resolve_url
CandidateRefs ==
    {e.href[1] : e \in {x \in Elements : x.href # None}}
        \cup {common_paths[j] : j \in 1..Len(common_paths)}

\* C16: a Feed is constructed only after successful validation: the feeds of
\* the call are, in order, the validate_rss_feed calls of this discovery
\* that returned a format; each feed has the URL of its call, which
\* resolve_url produced against the page URL and which is absolute and
\* parseable, the format that call returned, and the page URL as its source
\* page.
C16_FeedsAreValidated ==
    LET confirmed == SelectSeq(call.requests, LAMBDA r : r.verdict # None) IN
    /\ Len(call.feeds) = Len(confirmed)
    /\ \A m \in 1..Len(call.feeds) :
          /\ m <= Len(confirmed)
          /\ call.feeds[m].url = confirmed[m].url
          /\ call.feeds[m].feed_type = confirmed[m].verdict[1]
          /\ call.feeds[m].html_url = call.url
          /\ \E h \in CandidateRefs :
                resolve_url(call.url, h) = [ok |-> TRUE, v |-> call.feeds[m].url]
          /\ UrlParse(call.feeds[m].url) = [ok |-> TRUE, v |-> call.feeds[m].url]
    /\ last.kind = "validate" =>
          /\ call.requests # <<>>
          /\ call.requests[Len(call.requests)].url = last.url
          /\ call.requests[Len(call.requests)].verdict = last.verdict

\* C16 witness: a page advertising one RSS link and one Atom link, both
\* valid, returned exactly those two feeds.
C16_Witness ==
    /\ call.pc = "ok"
    /\ call.url = PageA
    /\ Len(call.feeds) = 2
    /\ call.feeds[1].feed_type = "Rss"
    /\ call.feeds[1].url = HrefShared
    /\ call.feeds[2].feed_type = "Atom"
    /\ call.feeds[2].url = Str("https", "a.example", "/feed.xml")

(***************************************************************************)
(* More claims about create_opml_file_filtered (SpecSer)                   *)
(***************************************************************************)
\* C12: the document title is "RSS Feeds" when the filter is unset or RSS
\* and "Atom Feeds" when it is Atom, whatever feeds are passed.
C12_TitleFollowsFilter ==
    file # None =>
        /\ filter = <<"Atom">> => file[1].title = "Atom Feeds"
        /\ filter \in {<<>>, <<"Rss">>} => file[1].title = "RSS Feeds"

\* C12 witness: an Atom filter over a non-empty list with no Atom feed wrote
\* an empty body under the title "Atom Feeds".
C12_Witness ==
    /\ file # None
    /\ filter = <<"Atom">>
    /\ feeds_in # <<>>
    /\ \A i \in 1..Len(feeds_in) : feeds_in[i].feed_type = "Rss"
    /\ file[1].outlines = <<>>
    /\ file[1].title = "Atom Feeds"

\* the feeds of s that pass the filter, in order
Filtered(s) == SelectSeq(s, LAMBDA f : filter = None \/ filter[1] = f.feed_type)

RECURSIVE FirstOccurrences(_)
\* the feeds of s without those whose URL an earlier feed of s has
FirstOccurrences(s) ==
    IF s = <<>> THEN <<>>
    ELSE LET front == SubSeq(s, 1, Len(s) - 1)
             f == s[Len(s)] IN
         IF \E m \in 1..Len(front) : front[m].url = f.url
         THEN FirstOccurrences(front)
         ELSE Append(FirstOccurrences(front), f)

OutlinesOf(s) == [m \in 1..Len(s) |-> Outline(s[m])]

\* C17: the filter is applied before deduplication, so a filtered-out entry
\* never marks its URL as seen: the outlines are the first occurrences of
\* the filtered list, and the first passing feed of a URL is emitted also
\* when a feed of the other format with that URL comes before it.
C17_FilterBeforeDedup ==
    file # None =>
        /\ file[1].outlines = OutlinesOf(FirstOccurrences(Filtered(feeds_in)))
        /\ \A j \in 1..Len(feeds_in) :
              (Passes(j) /\ \A i \in 1..(j - 1) :
                               feeds_in[i].url = feeds_in[j].url => ~Passes(i))
              => \E m \in 1..Len(file[1].outlines) :
                     file[1].outlines[m] = Outline(feeds_in[j])

\* C17 witness: a URL occurs first as Atom and then as RSS under an RSS
\* filter; the RSS entry is written, where filtering the deduplicated list
\* would have written nothing.
C17_Witness ==
    /\ file # None
    /\ filter = <<"Rss">>
    /\ Len(feeds_in) = 2
    /\ feeds_in[1].url = feeds_in[2].url
    /\ feeds_in[1].feed_type = "Atom"
    /\ feeds_in[2].feed_type = "Rss"
    /\ file[1].outlines = <<Outline(feeds_in[2])>>
    /\ OutlinesOf(Filtered(FirstOccurrences(feeds_in))) = <<>>

(***************************************************************************)
(* More claims about the command-line program (SpecCli)                    *)
(***************************************************************************)
\* the run is over and what it did with output_path fits the feeds found
MainOutcome ==
    /\ bpc # "done" => writes = 0
    /\ bpc = "done" =>
          IF result = <<>>
          THEN /\ writes = 0
               /\ ret = "Ok"
               /\ report = <<Line("out", "Total feeds found", 0),
                             Line("out", "OPML file will not be created", 0)>>
          ELSE /\ writes = 1
               /\ ret = "Ok" => file = Some(main_create_opml_file(result))

\* C13: when no feed is found the serializer is not invoked, the file at the
\* output path is neither created nor overwritten, and the run reports so
\* and ends as success; when a feed is found the file is written exactly
\* once.  The file changes only in a step that calls fs::write.
C13_WriteOnlyWhenFeedsFound ==
    /\ []MainOutcome
    /\ [][writes' = writes => file' = file]_vars

\* C13 witness: a run over two pages that found nothing ended as success
\* with the earlier file still in place.
C13_Witness ==
    /\ bpc = "done"
    /\ Len(urls) = 2
    /\ result = <<>>
    /\ ret = "Ok"
    /\ writes = 0
    /\ file = Some(OldFile)

====
